---- MODULE Spec2Model ----
(***************************************************************************)
(* A model of japi-core's typed handler pipeline:                          *)
(*   - MakeHandler's middleware composition and route registration,        *)
(*   - the route list guarded by routesMutex and GetCollectedRoutes,       *)
(*   - AdaptHandler's per-request context construction and error           *)
(*     classification, with the typed middleware stages it drives.         *)
(*                                                                         *)
(* and of the helpers around it: the three places an error becomes a       *)
(* response, db.Connect, db.WithTx and the query helpers, Nullable[T], the *)
(* request-ID middlewares and the Prometheus metrics middleware.           *)
(*                                                                         *)
(* The specifications of the module:                                       *)
(*   Spec          one adapted handler serving requests, a Go call a step; *)
(*   SpecReg       concurrent MakeHandler / GetRoutes callers on the       *)
(*                 registries, and RegisterCollectedRoutes;                *)
(*   SpecRegFair   the locking calls of SpecReg, as running goroutines;    *)
(*   SpecErr       an error translated at each of the three points;        *)
(*   SpecConc      requests in flight at the same time;                    *)
(*   SpecDB        Connect, WithTx, QueryMany, QueryOne and Exec;          *)
(*   SpecNullable  a Nullable[T] and its accessors;                        *)
(*   SpecRequestID http.WithRequestID and typed.WithRequestID;             *)
(*   SpecMetrics   concurrent requests through the metrics middleware.     *)
(***************************************************************************)
EXTENDS Integers, Sequences, FiniteSets, TLC

(***************************************************************************)
(* Bounds                                                                  *)
(***************************************************************************)
\* longest middleware list handed to MakeHandler in Spec
MaxChain == 2
\* requests served one after another by the adapted handler in Spec
MaxRequests == 2
\* goroutines that each call MakeHandler once in SpecReg
NumRegistrars == 2
\* GetRoutes calls made by the reading caller in SpecReg
MaxReads == 2
\* handler invocations answered at one translation point in SpecErr
MaxRuns == 2
\* requests in flight at once on one adapted handler in SpecConc
NumInFlight == 2

(***************************************************************************)
(* Program constants                                                       *)
(***************************************************************************)
StatusOK == 200
StatusCreated == 201
StatusBadRequest == 400
StatusUnauthorized == 401
StatusForbidden == 403
StatusNotFound == 404
StatusInternalServerError == 500
StatusGatewayTimeout == 504
\* db.Connect's default for MaxOpenConns and for MaxIdleConns
DefaultMaxConns == 25

VARIABLES
    \* ---- Spec: the adapted handler and the request in flight ----
    route,      \* what MakeHandler was given and what it composed
    req,        \* the inbound *http.Request
    pc,         \* "idle" | "call" | "return" | "done"
    depth,      \* index into route.handler of the stage running / returned to
    frames,     \* the ctx argument of every active stage (passed by value)
    ret,        \* (ResponseBodyT, error) of the call that returned last
    w,          \* the http.ResponseWriter
    trace,      \* stages in the order they ran
    seen,       \* the HandlerContext the base handler received
    short,      \* the stage that returned an error without calling next
    auth,       \* what the token and user checks of each RequireAuth answered
    served,     \* requests started so far
    \* ---- SpecReg: the registries and their callers ----
    routes,     \* registry -> []PendingRoute
    routesMutex,\* registry -> state of its sync.RWMutex
    arrays,     \* backing arrays of the []string slices held by routes
    rpc,        \* registrar -> position inside MakeHandler
    rlocal,     \* registrar -> its arguments and locals
    cpc,        \* position of the reading caller inside GetRoutes
    got,        \* the slice GetRoutes returned to the reading caller
    creg,       \* the registry the reading caller works on
    reads,      \* GetRoutes calls started so far
    registered, \* registry -> routes as they were registered, by value
    router,     \* the registrations made on the chi.Router being bound
    bidx,       \* RegisterCollectedRoutes: index of the next route of its loop
    \* ---- SpecErr: the error-to-response translation points ----
    point,      \* the translation point the handlers are mounted behind
    eerr,       \* the error each handler invocation returned
    ew,         \* the http.ResponseWriter of each invocation, afterwards
    \* ---- SpecConc: one adapted handler, requests in flight at once ----
    inreq,      \* invocation -> its *http.Request
    inpc,       \* invocation -> "idle" | "call" | "done"
    indepth,    \* invocation -> index into route.handler of its running stage
    stack,      \* the ctx variables of the active calls, by address
    inseen,     \* invocation -> the HandlerContext its base handler received
    \* ---- SpecDB: one caller of the db package's helpers ----
    dpc,        \* position inside the helper being run, "idle" between calls
    darg,       \* the helper being run and the arguments of the call
    tx,         \* the *sql.Tx of the running WithTx
    dcalls,     \* the calls the helper made on database/sql, in order
    qctx,       \* the context the querier received with the helper's call
    dout,       \* how the helper call ended: what it returned or its panic
    \* ---- SpecNullable: a Nullable[T] and the accessors called on it ----
    made,       \* the constructor call that made the Nullable
    nval,       \* the Nullable[T] value
    fallback,   \* the defaultValue of the last ValueOr call
    results,    \* how each accessor called on nval ended
    \* ---- SpecRequestID: http.WithRequestID and typed.WithRequestID ----
    ipc,        \* "idle" | "http" | "typed" | "handler"
    ireq,       \* the request: its X-Request-ID header, its context value
    irw,        \* the X-Request-ID header of the response
    ictx,       \* the HandlerContext of the typed chain
    uuids,      \* how many UUIDs uuid.New has generated
    handled,    \* what the handler of each finished request saw
    \* ---- SpecMetrics: Collector.middleware around concurrent requests ----
    mpc,        \* where each caller's request is inside the middleware
    mww,        \* the responseWriter wrapper of each request
    mrw,        \* the http.ResponseWriter behind each wrapper
    requestsInFlight,   \* the requests_in_flight gauge
    requestsTotal,      \* the requests_total counter of each status label
    issued,     \* how many requests have entered the middleware
    answered    \* how many requests have been answered with each status

reqVars == <<route, req, pc, depth, frames, ret, w, trace, seen, short, auth,
             served>>
regVars == <<routes, routesMutex, arrays, rpc, rlocal, cpc, got, creg, reads,
             registered>>
errVars == <<point, eerr, ew>>
bindVars == <<router, bidx>>
concVars == <<inreq, inpc, indepth, stack, inseen>>
dbVars == <<dpc, darg, tx, dcalls, qctx, dout>>
nullVars == <<made, nval, fallback, results>>
idVars == <<ipc, ireq, irw, ictx, uuids, handled>>
metVars == <<mpc, mww, mrw, requestsInFlight, requestsTotal, issued, answered>>
obsVars == <<idVars, metVars>>
vars == <<reqVars, regVars, bindVars, errVars, concVars, dbVars, nullVars,
          obsVars>>

\* what the actions of each specification leave alone
notReq == <<regVars, bindVars, errVars, concVars, dbVars,
    nullVars, obsVars>>
notReg == <<reqVars, bindVars, errVars, concVars, dbVars,
    nullVars, obsVars>>
notBind == <<reqVars, errVars, concVars, dbVars,
    nullVars, obsVars>>
notErr == <<reqVars, regVars, bindVars, concVars, dbVars,
    nullVars, obsVars>>
notConc == <<reqVars, regVars, bindVars, errVars, dbVars,
    nullVars, obsVars>>
notDB == <<reqVars, regVars, bindVars, errVars, concVars, nullVars,
    obsVars>>
notNull == <<reqVars, regVars, bindVars, errVars, concVars, dbVars,
    obsVars>>
notID == <<reqVars, regVars, bindVars, errVars, concVars, dbVars, nullVars,
    metVars>>
notMetrics == <<reqVars, regVars, bindVars, errVars, concVars, dbVars,
    nullVars, idVars>>

(***************************************************************************)
(* Nullable[T]                                                             *)
(***************************************************************************)
\* the zero value of every T the model uses
Zero == "zero"

NewNullable(value) == [value |-> value, hasValue |-> TRUE]

Nil == [value |-> Zero, hasValue |-> FALSE]

HasValue(n) == n.hasValue

(***************************************************************************)
(* Errors.  An error is its root cause (kind, code, message, detail) under *)
(* `depth' layers of fmt.Errorf("...: %w", err).  A text that may be empty *)
(* (APIError.Detail) is a sequence, <<>> when empty.                       *)
(***************************************************************************)
NoError == [kind |-> "nil", code |-> 0, message |-> "", detail |-> <<>>,
            depth |-> 0]

Canceled == [kind |-> "context.Canceled", code |-> 0,
             message |-> "context canceled", detail |-> <<>>, depth |-> 0]

DeadlineExceeded == [kind |-> "context.DeadlineExceeded", code |-> 0,
                     message |-> "context deadline exceeded", detail |-> <<>>,
                     depth |-> 0]

\* core.NewAPIError: a *core.APIError
NewAPIError(code, message) ==
    [kind |-> "*APIError", code |-> code, message |-> message,
     detail |-> <<>>, depth |-> 0]

\* a core.APIError held by value in the error interface
APIErrorValue(code, message) ==
    [kind |-> "APIError", code |-> code, message |-> message,
     detail |-> <<>>, depth |-> 0]

\* errors.New(text)
ErrorsNew(text) ==
    [kind |-> "errorString", code |-> 0, message |-> text, detail |-> <<>>,
     depth |-> 0]

\* fmt.Errorf("...: %w", err)
Wrap(err) == [err EXCEPT !.depth = @ + 1]

Unwrap(err) == [err EXCEPT !.depth = @ - 1]

\* errors.Is: err itself, or anything down its Unwrap chain, is the target
RECURSIVE ErrorsIs(_, _)
ErrorsIs(err, target) ==
    IF err = target THEN TRUE
    ELSE IF err.depth = 0 THEN FALSE
    ELSE ErrorsIs(Unwrap(err), target)

\* the type assertion err.(*core.APIError)
IsAPIErrorPtr(err) == err.kind = "*APIError" /\ err.depth = 0

(***************************************************************************)
(* core: writing responses                                                 *)
(***************************************************************************)
NewResponseWriter == [wroteHeader |-> FALSE, Code |-> 0, Body |-> <<>>,
                      log |-> <<>>]

\* http.ResponseWriter.WriteHeader: the first status is the one sent
WriteHeader(rw, status) ==
    IF rw.wroteHeader THEN rw
    ELSE [rw EXCEPT !.wroteHeader = TRUE, !.Code = status]

\* json.Encoder.Encode fails on a value it cannot marshal
Encodable(data) == data.kind # "unencodable"

\* core.JSON, called by `by': the writer after the call and Encode's error
JSON(rw, by, status, data) ==
    LET h == WriteHeader(rw, status)
        l == [h EXCEPT !.log = Append(@, [by |-> by, status |-> status])]
    IN  IF Encodable(data)
        THEN [w |-> [l EXCEPT !.Body = Append(@, data)], err |-> NoError]
        ELSE [w |-> l, err |-> ErrorsNew("json: unsupported value")]

\* the map {"error": apiErr} that WriteAPIError encodes; an empty Detail
\* is omitted
ErrorBody(apiErr) ==
    [kind |-> "error", code |-> apiErr.code, message |-> apiErr.message,
     detail |-> apiErr.detail]

\* core.WriteAPIError
WriteAPIError(rw, by, apiErr) == JSON(rw, by, apiErr.code, ErrorBody(apiErr)).w

\* core.Error
Error(rw, by, status, message) == WriteAPIError(rw, by, NewAPIError(status, message))

(***************************************************************************)
(* handler: MakeHandler's composition.  A composed handler is the list of  *)
(* its stages, outermost first, ending with the base handler.              *)
(***************************************************************************)
BaseHandler == "H"

Middlewares == {"WithLogging", "ResponseJSON", "RequireAuth", "ParseBody"}

\* middleware[i](handler): the middleware's closure around handler
ApplyMiddleware(mw, handler) == <<mw>> \o handler

\* for i := len(middleware) - 1; i >= 0; i-- { handler = middleware[i](handler) }
RECURSIVE ComposeFrom(_, _, _)
ComposeFrom(middleware, i, handler) ==
    IF i < 1 THEN handler
    ELSE ComposeFrom(middleware, i - 1, ApplyMiddleware(middleware[i], handler))

\* the handler MakeHandler returns and registers
Compose(baseHandler, middleware) ==
    ComposeFrom(middleware, Len(middleware), <<baseHandler>>)

(***************************************************************************)
(* handler: AdaptHandler                                                   *)
(***************************************************************************)
NilContext == "nil"

\* a HandlerContext literal that leaves Context unset
NewHandlerContextNoContext(r) ==
    [Context |-> NilContext, DB |-> "db", Logger |-> "logger",
     Params |-> Nil, Body |-> Nil, BodyRaw |-> Nil, Headers |-> Nil,
     UserUUID |-> Nil, CompanyUUID |-> Nil]

\* the HandlerContext literal built for each request
NewHandlerContext(r) ==
    [Context |-> r.Context, DB |-> "db", Logger |-> "logger",
     Params |-> Nil, Body |-> Nil, BodyRaw |-> Nil, Headers |-> Nil,
     UserUUID |-> Nil, CompanyUUID |-> Nil]

\* an error branch without the two context checks
AdaptHandlerRespondNoContext(rw, err) ==
    IF err = NoError THEN rw
    ELSE IF IsAPIErrorPtr(err) THEN WriteAPIError(rw, "adapter", err)
    ELSE Error(rw, "adapter", StatusInternalServerError, "Internal server error")

\* an error branch that compares with == where the code uses errors.Is
AdaptHandlerRespondEq(rw, err) ==
    IF err = NoError THEN rw
    ELSE IF err = Canceled THEN rw
    ELSE IF err = DeadlineExceeded
         THEN WriteAPIError(rw, "adapter",
                            NewAPIError(StatusGatewayTimeout, "Request timeout"))
    ELSE IF IsAPIErrorPtr(err) THEN WriteAPIError(rw, "adapter", err)
    ELSE Error(rw, "adapter", StatusInternalServerError, "Internal server error")

\* the error branch of the adapter: the writer after the composed handler
\* returned err
AdaptHandlerRespond(rw, err) ==
    IF err = NoError THEN rw
    ELSE IF ErrorsIs(err, Canceled) THEN rw
    ELSE IF ErrorsIs(err, DeadlineExceeded)
         THEN WriteAPIError(rw, "adapter",
                            NewAPIError(StatusGatewayTimeout, "Request timeout"))
    ELSE IF IsAPIErrorPtr(err) THEN WriteAPIError(rw, "adapter", err)
    ELSE Error(rw, "adapter", StatusInternalServerError, "Internal server error")

\* core.handleError; the detail it answers with is err.Error(), the text
\* of the root cause and of the layers around it
handleError(rw, err) ==
    IF IsAPIErrorPtr(err) THEN WriteAPIError(rw, "handleError", err)
    ELSE WriteAPIError(rw, "handleError",
            [NewAPIError(StatusInternalServerError, "Internal Server Error")
                EXCEPT !.detail = <<err.depth, err.kind, err.code,
                                    err.message>>])

(***************************************************************************)
(* middleware/typed: what each stage does before calling next.  The result *)
(* says whether next is called, with which context, or which error the     *)
(* stage returns instead.                                                  *)
(***************************************************************************)
CallNext(ctx) == [next |-> TRUE, ctx |-> ctx, err |-> NoError]

ReturnError(ctx, err) == [next |-> FALSE, ctx |-> ctx, err |-> err]

\* WithLogging logs the request and calls next
WithLoggingPre(ctx, r) == CallNext(ctx)

\* ResponseJSON calls next first
ResponseJSONPre(ctx, r) == CallNext(ctx)

\* a header value is the list of its parts: "" is <<>>, "Bearer tok" is
\* <<"Bearer ", "tok">>
HasPrefix(header, prefix) == Len(header) >= 1 /\ header[1] = prefix

TrimPrefix(header, prefix) ==
    IF HasPrefix(header, prefix) THEN Tail(header) ELSE header

\* the claims jwt.ValidateToken reads from a valid token
Claims(token) ==
    IF token = <<"tok-2">>
    THEN [UserUUID |-> "user-uuid-2", CompanyUUID |-> "company-uuid-2"]
    ELSE IF token = <<"tok-3">>
    THEN [UserUUID |-> "user-uuid-3", CompanyUUID |-> "company-uuid-3"]
    ELSE [UserUUID |-> "user-uuid", CompanyUUID |-> "company-uuid"]

\* a RequireAuth that does not look at what validateUserCompany returned
RequireAuthPreNoValidate(ctx, r, jwtSecret, tokenErr, validateErr) ==
    LET authHeader == r.Authorization
        token == TrimPrefix(authHeader, "Bearer ")
    IN  IF authHeader = <<>>
        THEN ReturnError(ctx, NewAPIError(StatusUnauthorized,
                                          "Authorization header required"))
        ELSE IF ~HasPrefix(authHeader, "Bearer ")
        THEN ReturnError(ctx, NewAPIError(StatusUnauthorized,
                              "Authorization header must start with 'Bearer '"))
        ELSE IF token = <<>>
        THEN ReturnError(ctx, NewAPIError(StatusUnauthorized,
                                          "Bearer token is required"))
        ELSE IF jwtSecret = ""
        THEN ReturnError(ctx, NewAPIError(StatusInternalServerError,
                                          "Authentication configuration error"))
        ELSE IF tokenErr
        THEN ReturnError(ctx, NewAPIError(StatusUnauthorized,
                                          "Invalid or expired token"))
        ELSE CallNext([ctx EXCEPT
                 !.UserUUID = NewNullable(Claims(token).UserUUID),
                 !.CompanyUUID = NewNullable(Claims(token).CompanyUUID)])

\* RequireAuth; tokenErr: jwt.ValidateToken failed; validateErr: what
\* validateUserCompany returned
RequireAuthPre(ctx, r, jwtSecret, tokenErr, validateErr) ==
    LET authHeader == r.Authorization
        token == TrimPrefix(authHeader, "Bearer ")
    IN  IF authHeader = <<>>
        THEN ReturnError(ctx, NewAPIError(StatusUnauthorized,
                                          "Authorization header required"))
        ELSE IF ~HasPrefix(authHeader, "Bearer ")
        THEN ReturnError(ctx, NewAPIError(StatusUnauthorized,
                              "Authorization header must start with 'Bearer '"))
        ELSE IF token = <<>>
        THEN ReturnError(ctx, NewAPIError(StatusUnauthorized,
                                          "Bearer token is required"))
        ELSE IF jwtSecret = ""
        THEN ReturnError(ctx, NewAPIError(StatusInternalServerError,
                                          "Authentication configuration error"))
        ELSE IF tokenErr
        THEN ReturnError(ctx, NewAPIError(StatusUnauthorized,
                                          "Invalid or expired token"))
        ELSE IF validateErr # NoError
        THEN ReturnError(ctx, validateErr)
        ELSE CallNext([ctx EXCEPT
                 !.UserUUID = NewNullable(Claims(token).UserUUID),
                 !.CompanyUUID = NewNullable(Claims(token).CompanyUUID)])

\* ParseBody; expectsBody: BodyTypeT is not the empty struct
ParseBodyPre(ctx, r, expectsBody) ==
    LET rawBody == IF r.ContentLength > 0 THEN r.Body ELSE "empty"
        ctx1 == [ctx EXCEPT !.BodyRaw = IF r.ContentLength > 0
                                        THEN NewNullable(rawBody) ELSE Nil]
    IN  IF r.ContentLength > 0 /\ r.Body = "unreadable"
        THEN ReturnError(ctx, NewAPIError(StatusBadRequest,
                                          "Failed to read request body"))
        ELSE IF ~expectsBody
        THEN CallNext([ctx1 EXCEPT !.Body = Nil])
        ELSE IF r.ContentLength = 0
        THEN ReturnError(ctx1, NewAPIError(StatusBadRequest,
                                           "Request body is required"))
        ELSE IF rawBody \in {"empty", "badjson"}
        THEN ReturnError(ctx1, NewAPIError(StatusBadRequest,
                                           "Invalid JSON format"))
        ELSE IF rawBody = "invalid"
        THEN ReturnError(ctx1, NewAPIError(StatusBadRequest,
                                           "Validation failed"))
        ELSE CallNext([ctx1 EXCEPT !.Body = NewNullable(rawBody)])

(***************************************************************************)
(* middleware/typed: what each stage does after next returned `result'.    *)
(* The outcome is the stage's own return value and the writer.             *)
(***************************************************************************)
\* WithLogging logs the outcome and returns it
WithLoggingPost(rw, r, result) == [w |-> rw, ret |-> result]

\* RequireAuth and ParseBody return next's result directly
PassThroughPost(rw, r, result) == [w |-> rw, ret |-> result]

\* a ResponseJSON that answers errors itself and returns nil
ResponseJSONPostHandlesErrors(rw, r, result) ==
    IF result.err # NoError
    THEN [w |-> Error(rw, "ResponseJSON", StatusInternalServerError,
                      "Internal server error"),
          ret |-> [result EXCEPT !.err = NoError]]
    ELSE LET statusCode == IF r.Method = "POST" THEN StatusCreated
                           ELSE StatusOK
         IN  [w |-> JSON(rw, "ResponseJSON", statusCode, result.data).w,
              ret |-> result]

\* ResponseJSON writes the response of a successful handler
ResponseJSONPost(rw, r, result) ==
    IF result.err # NoError THEN [w |-> rw, ret |-> result]
    ELSE LET statusCode == IF r.Method = "POST" THEN StatusCreated
                           ELSE StatusOK
             j == JSON(rw, "ResponseJSON", statusCode, result.data)
         IN  IF j.err # NoError
             THEN [w |-> j.w,
                   ret |-> [result EXCEPT !.err =
                            NewAPIError(StatusInternalServerError,
                                        "Failed to write response")]]
             ELSE [w |-> j.w, ret |-> result]

(***************************************************************************)
(* Inputs of Spec                                                          *)
(***************************************************************************)
\* every middleware list of at most n entries
Chains(n) == UNION {[1..k -> Middlewares] : k \in 0..n}

Uses(middleware, mw) == \E i \in DOMAIN middleware : middleware[i] = mw

\* the routes served: a middleware list, whether BodyTypeT has fields, and
\* the secret RequireAuth was built with.  A setting no stage of the list
\* reads is held at one value.
Routes ==
    {[middleware |-> m, handler |-> Compose(BaseHandler, m),
      expectsBody |-> b, jwtSecret |-> s] :
        m \in Chains(MaxChain), b \in BOOLEAN, s \in {"", "secret"}}

ServedRoutes ==
    {rt \in Routes :
        /\ Uses(rt.middleware, "ParseBody") \/ ~rt.expectsBody
        /\ Uses(rt.middleware, "RequireAuth") \/ rt.jwtSecret = "secret"}

Contexts == {"ctx-request-1", "ctx-request-2"}

AuthHeaders == {<<>>, <<"Basic ", "abc">>, <<"Bearer ">>, <<"Bearer ", "tok">>}

Bodies == {[ContentLength |-> 0, Body |-> "empty"],
           [ContentLength |-> 1, Body |-> "unreadable"],
           [ContentLength |-> 1, Body |-> "badjson"],
           [ContentLength |-> 1, Body |-> "invalid"],
           [ContentLength |-> 1, Body |-> "valid"],
           [ContentLength |-> -1, Body |-> "valid"]}

\* the requests sent to a route; a header or body no stage of the route
\* reads is held at one value
Requests(rt) ==
    {[Method |-> m, Context |-> c, Authorization |-> a,
      ContentLength |-> b.ContentLength, Body |-> b.Body] :
        m \in {"GET", "POST"}, c \in Contexts,
        a \in {h \in AuthHeaders :
                 Uses(rt.middleware, "RequireAuth") \/ h = <<>>},
        b \in {x \in Bodies :
                 Uses(rt.middleware, "ParseBody") \/ x.ContentLength = 0}}

NoRequest == [Method |-> "", Context |-> NilContext, Authorization |-> <<>>,
              ContentLength |-> 0, Body |-> "empty"]

\* the zero value of ResponseBodyT
ZeroData == [kind |-> "data", code |-> 0, message |-> "", detail |-> <<>>]

ResponseData == [kind |-> "data", code |-> 0, message |-> "payload",
                 detail |-> <<>>]

\* a response value json cannot marshal
UnencodableData == [kind |-> "unencodable", code |-> 0, message |-> "payload",
                    detail |-> <<>>]

NoReturn == [data |-> ZeroData, err |-> NoError]

\* the errors a base handler returns
HandlerErrors ==
    {Canceled, Wrap(Canceled), DeadlineExceeded, Wrap(DeadlineExceeded),
     NewAPIError(StatusNotFound, "User not found"),
     NewAPIError(499, "Client closed request"),
     Wrap(NewAPIError(StatusNotFound, "User not found")),
     APIErrorValue(StatusNotFound, "User not found"),
     ErrorsNew("sql: no rows in result set"),
     ErrorsNew("database error: context canceled")}

\* what a base handler returns
HandlerResults ==
    {[data |-> d, err |-> NoError] : d \in {ResponseData, UnencodableData}}
    \cup {[data |-> ZeroData, err |-> e] : e \in HandlerErrors}

\* what validateUserCompany returns
ValidateResults ==
    {NoError, NewAPIError(StatusForbidden, "User not found"),
     ErrorsNew("db: connection refused")}

NoContext == [Context |-> NilContext, DB |-> "", Logger |-> "",
              Params |-> Nil, Body |-> Nil, BodyRaw |-> Nil, Headers |-> Nil,
              UserUUID |-> Nil, CompanyUUID |-> Nil]

NoShort == [at |-> 0, err |-> NoError]

(***************************************************************************)
(* Spec: one adapted handler.  A stage that is called is frames[depth] of  *)
(* route.handler[depth]; pc = "return" hands ret to the stage at depth,    *)
(* or to the adapter when depth = 0.                                       *)
(***************************************************************************)
ReqInitWith(rt) ==
    /\ route = rt
    /\ req = NoRequest
    /\ pc = "idle"
    /\ depth = 0
    /\ frames = <<>>
    /\ ret = NoReturn
    /\ w = NewResponseWriter
    /\ trace = <<>>
    /\ seen = NoContext
    /\ short = NoShort
    /\ auth = <<>>
    /\ served = 0

ReqInit == \E rt \in ServedRoutes : ReqInitWith(rt)

Event(ev) == [ev |-> ev, stage |-> route.handler[depth], at |-> depth]

\* AdaptHandler's closure is invoked: it builds ctx and calls the handler
Serve ==
    /\ pc \in {"idle", "done"}
    /\ served < MaxRequests
    /\ \E r \in Requests(route) :
          /\ req' = r
          /\ frames' = <<NewHandlerContext(r)>>
    /\ served' = served + 1
    /\ w' = NewResponseWriter
    /\ depth' = 1
    /\ pc' = "call"
    /\ trace' = <<>>
    /\ ret' = NoReturn
    /\ seen' = NoContext
    /\ short' = NoShort
    /\ auth' = <<>>
    /\ UNCHANGED route

\* a call of next that hands every active stage the callee's ctx
NextByReference(fs, d, ctx) == Append([i \in DOMAIN fs |-> ctx], ctx)

\* next(ctx, w, r) called by the stage at depth d: ctx is the caller's
\* variable, and the callee receives a copy of it
NextByValue(fs, d, ctx) == Append([fs EXCEPT ![d] = ctx], ctx)

\* a middleware closure ran up to its call of next, or to its early return
StageCall(mw, res) ==
    /\ pc = "call"
    /\ route.handler[depth] = mw
    /\ trace' = Append(trace, Event("pre"))
    /\ IF res.next
       THEN /\ frames' = NextByValue(frames, depth, res.ctx)
            /\ depth' = depth + 1
            /\ pc' = "call"
            /\ UNCHANGED <<ret, short>>
       ELSE /\ frames' = SubSeq(frames, 1, depth - 1)
            /\ depth' = depth - 1
            /\ pc' = "return"
            /\ ret' = [data |-> ZeroData, err |-> res.err]
            /\ short' = [at |-> depth, err |-> res.err]
    /\ UNCHANGED <<route, req, w, seen, served>>

\* next returned to a middleware closure, which finishes and returns
StageReturn(mw, out) ==
    /\ pc = "return"
    /\ depth >= 1
    /\ route.handler[depth] = mw
    /\ trace' = Append(trace, Event("post"))
    /\ w' = out.w
    /\ ret' = out.ret
    /\ frames' = SubSeq(frames, 1, depth - 1)
    /\ depth' = depth - 1
    /\ pc' = "return"
    /\ UNCHANGED <<route, req, seen, short, auth, served>>

WithLoggingCall ==
    /\ pc = "call"
    /\ StageCall("WithLogging", WithLoggingPre(frames[depth], req))
    /\ UNCHANGED auth

WithLoggingReturn ==
    /\ pc = "return"
    /\ StageReturn("WithLogging", WithLoggingPost(w, req, ret))

ResponseJSONCall ==
    /\ pc = "call"
    /\ StageCall("ResponseJSON", ResponseJSONPre(frames[depth], req))
    /\ UNCHANGED auth

ResponseJSONReturn ==
    /\ pc = "return"
    /\ StageReturn("ResponseJSON", ResponseJSONPost(w, req, ret))

\* auth keeps whether the stage asked jwt.ValidateToken and
\* validateUserCompany, and their answers
RequireAuthCall ==
    /\ pc = "call"
    /\ \E tokenErr \in BOOLEAN, validateErr \in ValidateResults :
          /\ StageCall("RequireAuth",
                       RequireAuthPre(frames[depth], req, route.jwtSecret,
                                      tokenErr, validateErr))
          /\ LET asked ==
                     /\ HasPrefix(req.Authorization, "Bearer ")
                     /\ TrimPrefix(req.Authorization, "Bearer ") # <<>>
                     /\ route.jwtSecret # ""
             IN  auth' = Append(auth,
                     [asked |-> asked,
                      tokenValid |-> asked /\ ~tokenErr,
                      userCompanyValid |->
                          asked /\ ~tokenErr /\ validateErr = NoError])

RequireAuthReturn ==
    /\ pc = "return"
    /\ StageReturn("RequireAuth", PassThroughPost(w, req, ret))

ParseBodyCall ==
    /\ pc = "call"
    /\ StageCall("ParseBody",
                 ParseBodyPre(frames[depth], req, route.expectsBody))
    /\ UNCHANGED auth

ParseBodyReturn ==
    /\ pc = "return"
    /\ StageReturn("ParseBody", PassThroughPost(w, req, ret))

\* the base handler runs on the context it was handed and returns
BaseHandlerCall ==
    /\ pc = "call"
    /\ route.handler[depth] = BaseHandler
    /\ seen' = frames[depth]
    /\ trace' = Append(trace, Event("H"))
    /\ \E result \in HandlerResults : ret' = result
    /\ frames' = SubSeq(frames, 1, depth - 1)
    /\ depth' = depth - 1
    /\ pc' = "return"
    /\ UNCHANGED <<route, req, w, short, auth, served>>

\* the composed handler returned to the adapter, which answers an error
AdaptHandlerReturn ==
    /\ pc = "return"
    /\ depth = 0
    /\ w' = AdaptHandlerRespond(w, ret.err)
    /\ pc' = "done"
    /\ UNCHANGED <<route, req, depth, frames, ret, trace, seen, short, auth,
                   served>>

(***************************************************************************)
(* SpecReg: route registration.  A []string is the id of its backing       *)
(* array; copying a PendingRoute copies the id, not the array.             *)
(***************************************************************************)
\* the registries of the process, each made by its own NewRegistry call
Registries == {"X", "Y"}

Registrars == 1..NumRegistrars

NilSlice == <<"nil", 0>>

\* the array make([]string, len(middleware)) allocates in registrar p's call
NamesArray(p) == <<"names", p>>

\* the array behind the RouteInfo.Tags that registrar p passes in
TagsArray(p) == <<"tags", p>>

\* the array behind a slice literal the reading caller builds
CallerArray == <<"caller", 0>>

ArrayIds == {NamesArray(p) : p \in Registrars}
            \cup {TagsArray(p) : p \in Registrars} \cup {CallerArray}

\* what the registrars call MakeHandler with
RegInputs ==
    {[Method |-> "TRACE", Path |-> "/test", Tags |-> <<>>, middleware |-> <<>>],
     [Method |-> "POST", Path |-> "/users", Tags |-> <<"Users">>,
      middleware |-> <<"ResponseJSON">>]}

\* getMiddlewareName: the function name of each middleware
MiddlewareNamesOf(middleware) == [i \in DOMAIN middleware |-> middleware[i]]

NoLocal == [reg |-> "X", Method |-> "", Path |-> "", Tags |-> NilSlice,
            handler |-> <<>>, MiddlewareNames |-> NilSlice, tmp |-> <<>>]

\* the PendingRoute literal MakeHandler appends; call names the MakeHandler
\* call that made it
PendingRoute(p, l) ==
    [Method |-> l.Method, Path |-> l.Path, Handler |-> l.handler,
     RouteInfo |-> [Method |-> l.Method, Path |-> l.Path, Tags |-> l.Tags],
     MiddlewareNames |-> l.MiddlewareNames, call |-> p]

\* sync.RWMutex
NewRWMutex == [writer |-> FALSE, readers |-> 0]

\* a Lock that never waits
CanLockAlways(m) == TRUE

\* Lock proceeds when nobody holds the mutex
CanLock(m) == ~m.writer /\ m.readers = 0

\* RLock proceeds when no writer holds the mutex
CanRLock(m) == ~m.writer

\* a deferred Unlock that was left out
UnlockForgotten(m) == m

\* routesMutex.Unlock()
Unlock(m) == [m EXCEPT !.writer = FALSE]

\* one route list shared by every registry
RegistryStoreShared(rs, reg, list) == [x \in DOMAIN rs |-> list]

\* the route list a registry owns
RegistryStore(rs, reg, list) == [rs EXCEPT ![reg] = list]

\* a slice as a reader of its elements sees it
SliceValue(heap, slice) == IF slice = NilSlice THEN <<>> ELSE heap[slice]

\* a route with its slices read out
RouteValue(heap, e) ==
    [Method |-> e.Method, Path |-> e.Path, Handler |-> e.Handler,
     RouteInfo |-> [Method |-> e.RouteInfo.Method, Path |-> e.RouteInfo.Path,
                    Tags |-> SliceValue(heap, e.RouteInfo.Tags)],
     MiddlewareNames |-> SliceValue(heap, e.MiddlewareNames), call |-> e.call]

RoutesValue(heap, list) == [i \in DOMAIN list |-> RouteValue(heap, list[i])]

RegInit ==
    /\ routes = [reg \in Registries |-> <<>>]
    /\ routesMutex = [reg \in Registries |-> NewRWMutex]
    /\ arrays = [a \in ArrayIds |-> <<>>]
    /\ rpc = [p \in Registrars |-> "start"]
    /\ rlocal = [p \in Registrars |-> NoLocal]
    /\ cpc = "idle"
    /\ got = <<>>
    /\ creg = "X"
    /\ reads = 0
    /\ registered = [reg \in Registries |-> <<>>]
    /\ router = <<>>
    /\ bidx = 0

\* MakeHandler up to the lock: middleware names and composition
MakeHandlerStart(p) ==
    /\ rpc[p] = "start"
    /\ \E reg \in Registries, in \in RegInputs :
          /\ rlocal' = [rlocal EXCEPT ![p] =
                 [reg |-> reg, Method |-> in.Method, Path |-> in.Path,
                  Tags |-> IF in.Tags = <<>> THEN NilSlice ELSE TagsArray(p),
                  handler |-> Compose(BaseHandler, in.middleware),
                  MiddlewareNames |-> NamesArray(p), tmp |-> <<>>]]
          /\ arrays' = [arrays EXCEPT
                 ![NamesArray(p)] = MiddlewareNamesOf(in.middleware),
                 ![TagsArray(p)] = in.Tags]
    /\ rpc' = [rpc EXCEPT ![p] = "lock"]
    /\ UNCHANGED <<routes, routesMutex, cpc, got, creg, reads, registered>>

\* routesMutex.Lock()
MakeHandlerLock(p) ==
    /\ rpc[p] = "lock"
    /\ CanLock(routesMutex[rlocal[p].reg])
    /\ routesMutex' = [routesMutex EXCEPT ![rlocal[p].reg].writer = TRUE]
    /\ rpc' = [rpc EXCEPT ![p] = "read"]
    /\ UNCHANGED <<routes, arrays, rlocal, cpc, got, creg, reads, registered>>

\* append reads the slice it extends
MakeHandlerAppendRead(p) ==
    /\ rpc[p] = "read"
    /\ rlocal' = [rlocal EXCEPT ![p].tmp = routes[rlocal[p].reg]]
    /\ rpc' = [rpc EXCEPT ![p] = "write"]
    /\ UNCHANGED <<routes, routesMutex, arrays, cpc, got, creg, reads,
                   registered>>

\* the extended slice is stored back
MakeHandlerAppendWrite(p) ==
    /\ rpc[p] = "write"
    /\ LET l == rlocal[p]
           e == PendingRoute(p, l)
       IN  /\ routes' = RegistryStore(routes, l.reg, Append(l.tmp, e))
           /\ registered' = [registered EXCEPT
                  ![l.reg] = Append(@, RouteValue(arrays, e))]
    /\ rlocal' = [rlocal EXCEPT ![p].tmp = <<>>]
    /\ rpc' = [rpc EXCEPT ![p] = "unlock"]
    /\ UNCHANGED <<routesMutex, arrays, cpc, got, creg, reads>>

\* routesMutex.Unlock(); MakeHandler returns
MakeHandlerUnlock(p) ==
    /\ rpc[p] = "unlock"
    /\ routesMutex' = [routesMutex EXCEPT ![rlocal[p].reg] = Unlock(@)]
    /\ rpc' = [rpc EXCEPT ![p] = "done"]
    /\ UNCHANGED <<routes, arrays, rlocal, cpc, got, creg, reads, registered>>

\* GetRoutes: routesMutex.RLock()
GetRoutesRLock ==
    /\ cpc = "idle"
    /\ reads < MaxReads
    /\ \E reg \in Registries :
          /\ CanRLock(routesMutex[reg])
          /\ creg' = reg
          /\ routesMutex' = [routesMutex EXCEPT ![reg].readers = @ + 1]
    /\ reads' = reads + 1
    /\ cpc' = "copy"
    /\ UNCHANGED <<routes, arrays, rpc, rlocal, got, registered>>

\* make + copy: the elements are copied, the arrays behind their slices
\* are not
CopyRoutes(list) == [i \in 1..Len(list) |-> list[i]]

GetRoutesCopy ==
    /\ cpc = "copy"
    /\ got' = CopyRoutes(routes[creg])
    /\ cpc' = "runlock"
    /\ UNCHANGED <<routes, routesMutex, arrays, rpc, rlocal, creg, reads,
                   registered>>

\* the deferred RUnlock; GetRoutes returns the copy
GetRoutesRUnlock ==
    /\ cpc = "runlock"
    /\ routesMutex' = [routesMutex EXCEPT ![creg].readers = @ - 1]
    /\ cpc' = "have"
    /\ UNCHANGED <<routes, arrays, rpc, rlocal, got, creg, reads, registered>>

\* the caller assigns to a field of an element of its copy
CallerEditEntry ==
    /\ cpc = "have"
    /\ \E i \in DOMAIN got : got' = [got EXCEPT ![i].Path = "/edited"]
    /\ cpc' = "idle"
    /\ UNCHANGED <<routes, routesMutex, arrays, rpc, rlocal, creg, reads,
                   registered>>

\* the caller drops the first element of its copy
CallerRemoveEntry ==
    /\ cpc = "have"
    /\ got # <<>>
    /\ got' = Tail(got)
    /\ cpc' = "idle"
    /\ UNCHANGED <<routes, routesMutex, arrays, rpc, rlocal, creg, reads,
                   registered>>

\* the caller appends an element of its own to its copy
CallerAppendEntry ==
    /\ cpc = "have"
    /\ got' = Append(got, [PendingRoute(0, NoLocal) EXCEPT !.Path = "/added"])
    /\ cpc' = "idle"
    /\ UNCHANGED <<routes, routesMutex, arrays, rpc, rlocal, creg, reads,
                   registered>>

\* the caller gives an element of its copy a slice of its own
CallerAssignSlice ==
    /\ cpc = "have"
    /\ \E i \in DOMAIN got :
          \/ got' = [got EXCEPT ![i].MiddlewareNames = CallerArray]
          \/ got' = [got EXCEPT ![i].RouteInfo.Tags = CallerArray]
    /\ arrays' = [arrays EXCEPT ![CallerArray] = <<"edited">>]
    /\ cpc' = "idle"
    /\ UNCHANGED <<routes, routesMutex, rpc, rlocal, creg, reads, registered>>

\* the caller assigns to an element of a slice of an element of its copy:
\* routes[i].MiddlewareNames[k] = "edited"
CallerWriteElement ==
    /\ cpc = "have"
    /\ \E i \in DOMAIN got :
          \E slice \in {got[i].MiddlewareNames, got[i].RouteInfo.Tags} :
             /\ slice # NilSlice
             /\ \E k \in DOMAIN arrays[slice] :
                   arrays' = [arrays EXCEPT ![slice][k] = "edited"]
    /\ cpc' = "idle"
    /\ UNCHANGED <<routes, routesMutex, rpc, rlocal, got, creg, reads,
                   registered>>

\* the caller is done with its copy
CallerDone ==
    /\ cpc = "have"
    /\ cpc' = "idle"
    /\ UNCHANGED <<routes, routesMutex, arrays, rpc, rlocal, got, creg, reads,
                   registered>>

\* route.Handler.Adapt(database, logger) for the route of MakeHandler
\* call `call'
Adapt(handler, call) == [adapted |-> handler, call |-> call]

\* registerRoute: the router after the call; the switch has these cases
\* and no default
registerRoute(r, method, path, handler) ==
    IF method \in {"GET", "POST", "PUT", "DELETE", "PATCH", "HEAD", "OPTIONS"}
    THEN Append(r, [Method |-> method, Path |-> path, Handler |-> handler])
    ELSE r

\* RegisterCollectedRoutes: routesMutex.RLock(), on a router of its own
BindRLock ==
    /\ cpc = "idle"
    /\ reads < MaxReads
    /\ \E reg \in Registries :
          /\ CanRLock(routesMutex[reg])
          /\ creg' = reg
          /\ routesMutex' = [routesMutex EXCEPT ![reg].readers = @ + 1]
    /\ reads' = reads + 1
    /\ router' = <<>>
    /\ bidx' = 1
    /\ cpc' = "bind"
    /\ UNCHANGED <<routes, arrays, rpc, rlocal, got, registered>>

\* one turn of the loop over the routes: adapt the handler, registerRoute
BindRegisterRoute ==
    /\ cpc = "bind"
    /\ bidx <= Len(routes[creg])
    /\ LET rt == routes[creg][bidx]
       IN  router' = registerRoute(router, rt.Method, rt.Path,
                                   Adapt(rt.Handler, rt.call))
    /\ bidx' = bidx + 1
    /\ UNCHANGED regVars

\* the loop is over: the deferred RUnlock, RegisterCollectedRoutes returns
\* and the application takes the bound router away to serve with it
BindRUnlock ==
    /\ cpc = "bind"
    /\ bidx > Len(routes[creg])
    /\ routesMutex' = [routesMutex EXCEPT ![creg].readers = @ - 1]
    /\ cpc' = "idle"
    /\ router' = <<>>
    /\ bidx' = 0
    /\ UNCHANGED <<routes, arrays, rpc, rlocal, got, creg, reads, registered>>

(***************************************************************************)
(* SpecErr: handlers mounted behind one of the three places that turn a    *)
(* returned error into a response.  Each step is one request: the handler  *)
(* returns an error and the translation point answers.                     *)
(***************************************************************************)
\* what a handler returns to a translation point
TranslatedErrors ==
    HandlerErrors \cup {NoError, Wrap(ErrorsNew("sql: no rows in result set"))}

ErrInit ==
    /\ point = "none"
    /\ eerr = <<>>
    /\ ew = <<>>

\* one invocation behind `at', answered by respond(rw, err)
Translate(at, err, rw) ==
    /\ point \in {"none", at}
    /\ Len(eerr) < MaxRuns
    /\ point' = at
    /\ eerr' = Append(eerr, err)
    /\ ew' = Append(ew, rw)

\* handler.AdaptHandler's closure serves a request whose handler returns err
AdaptHandlerServe ==
    \E err \in TranslatedErrors :
        Translate("AdaptHandler", err,
                  AdaptHandlerRespond(NewResponseWriter, err))

\* router.AdaptErrorHandler's closure serves a request: a *core.APIError
\* is written as it is, any other error as a plain 500
AdaptErrorHandler ==
    \E err \in TranslatedErrors :
        LET rw == NewResponseWriter
        IN  Translate("AdaptErrorHandler", err,
                IF err = NoError THEN rw
                ELSE IF IsAPIErrorPtr(err)
                     THEN WriteAPIError(rw, "AdaptErrorHandler", err)
                ELSE Error(rw, "AdaptErrorHandler", StatusInternalServerError,
                           "Internal Server Error"))

\* core.HandlerFunc.ServeHTTP serves a request
ServeHTTP ==
    \E err \in TranslatedErrors :
        Translate("ServeHTTP", err,
                  IF err = NoError THEN NewResponseWriter
                  ELSE handleError(NewResponseWriter, err))

(***************************************************************************)
(* SpecConc: the server runs the adapted handler of one route for several  *)
(* requests at once, one goroutine each.  A step is one closure of one     *)
(* invocation running up to its call of next or to its return.  The ctx    *)
(* parameter of a call is a variable of that call, at an address of its    *)
(* own.                                                                    *)
(***************************************************************************)
InFlight == 1..NumInFlight

\* the requests invocation q may be serving; a header or body no stage of
\* the route reads is left out; its context, token and body tell invocation q's request
\* from the others'
ConcRequests(rt, q) ==
    LET context == <<"ctx-request-1", "ctx-request-2", "ctx-request-3">>[q]
        token == <<"tok", "tok-2", "tok-3">>[q]
        body == <<"valid", "valid-2", "valid-3">>[q]
    IN  {[Method |-> "POST", Context |-> context, Authorization |-> a,
          ContentLength |-> b.ContentLength, Body |-> b.Body] :
            a \in {h \in {<<>>, <<"Bearer ", token>>} :
                     Uses(rt.middleware, "RequireAuth") \/ h = <<>>},
            b \in {x \in {[ContentLength |-> 0, Body |-> "empty"],
                          [ContentLength |-> 1, Body |-> body]} :
                     Uses(rt.middleware, "ParseBody") \/ x.ContentLength = 0}}

\* a ctx variable kept in one place for all invocations
SharedFrame(q, d) == <<1, d>>

\* the address of the ctx variable of invocation q's call at depth d:
\* a parameter or local of that call
FrameOf(q, d) == <<q, d>>

ConcInit ==
    /\ inreq = [q \in InFlight |-> NoRequest]
    /\ inpc = [q \in InFlight |-> "idle"]
    /\ indepth = [q \in InFlight |-> 0]
    /\ stack = [a \in {<<q, d>> : q \in InFlight, d \in 1..(MaxChain + 1)}
                   |-> NoContext]
    /\ inseen = [q \in InFlight |-> NoContext]

\* the adapter's closure is invoked for a request: it builds ctx and calls
\* the composed handler with it
ConcServe(q) ==
    /\ inpc[q] = "idle"
    /\ \E r \in ConcRequests(route, q) :
          /\ inreq' = [inreq EXCEPT ![q] = r]
          /\ stack' = [stack EXCEPT ![FrameOf(q, 1)] = NewHandlerContext(r)]
    /\ inpc' = [inpc EXCEPT ![q] = "call"]
    /\ indepth' = [indepth EXCEPT ![q] = 1]
    /\ UNCHANGED inseen

\* a middleware closure of invocation q ran on its ctx up to its call of
\* next, which receives the ctx by value, or to its early return
ConcStage(q, mw, res) ==
    /\ inpc[q] = "call"
    /\ route.handler[indepth[q]] = mw
    /\ IF res.next
       THEN /\ stack' = [stack EXCEPT
                   ![FrameOf(q, indepth[q])] = res.ctx,
                   ![FrameOf(q, indepth[q] + 1)] = res.ctx]
            /\ indepth' = [indepth EXCEPT ![q] = @ + 1]
            /\ UNCHANGED inpc
       ELSE /\ inpc' = [inpc EXCEPT ![q] = "done"]
            /\ UNCHANGED <<stack, indepth>>
    /\ UNCHANGED <<inreq, inseen>>

\* the ctx invocation q's running call reads
ConcCtx(q) == stack[FrameOf(q, indepth[q])]

\* the middleware stage invocation q has reached runs
ConcMiddleware(q) ==
    /\ inpc[q] = "call"
    /\ \/ ConcStage(q, "WithLogging", WithLoggingPre(ConcCtx(q), inreq[q]))
       \/ ConcStage(q, "ResponseJSON",
                    ResponseJSONPre(ConcCtx(q), inreq[q]))
       \/ \E tokenErr \in BOOLEAN, validateErr \in ValidateResults :
             ConcStage(q, "RequireAuth",
                       RequireAuthPre(ConcCtx(q), inreq[q], route.jwtSecret,
                                      tokenErr, validateErr))
       \/ ConcStage(q, "ParseBody",
                    ParseBodyPre(ConcCtx(q), inreq[q], route.expectsBody))

\* the base handler of invocation q runs on the ctx it was handed
ConcBaseHandler(q) ==
    /\ inpc[q] = "call"
    /\ route.handler[indepth[q]] = BaseHandler
    /\ inseen' = [inseen EXCEPT ![q] = ConcCtx(q)]
    /\ inpc' = [inpc EXCEPT ![q] = "done"]
    /\ UNCHANGED <<inreq, indepth, stack>>

(***************************************************************************)
(* SpecDB: the helpers of package db, called one after another.  A step is *)
(* the helper's code up to and including one call on database/sql or on    *)
(* the callback.                                                           *)
(***************************************************************************)
NoTx == [state |-> "none", rollbacks |-> 0, commits |-> 0]

NoOutcome == [kind |-> "none", value |-> Zero, err |-> NoError, panic |-> ""]

\* return value, err
Return(value, err) ==
    [kind |-> "return", value |-> value, err |-> err, panic |-> ""]

\* panic(p)
Panic(p) == [kind |-> "panic", value |-> Zero, err |-> NoError, panic |-> p]

\* context.Background()
Background == [id |-> "background", done |-> FALSE]

\* no context: the querier was not called
NoQueryContext == [id |-> "none", done |-> FALSE]

\* the contexts a caller of the helpers holds: the background context or a
\* request's context, cancelled or not
CallerContexts ==
    {Background} \cup {[id |-> c, done |-> d] : c \in Contexts, d \in BOOLEAN}

\* the errors database/sql answers a call with
DriverErrors == {ErrorsNew("driver: bad connection")}

\* what the callback handed to WithTx does
FnOutcomes ==
    {Return("result", NoError), Return(Zero, NoError),
     Return(Zero, ErrorsNew("transaction error")),
     Return("partial", Wrap(Canceled)),
     Return(Zero, NewAPIError(StatusNotFound, "User not found")),
     Panic("test panic"), Panic("nil map")}

\* a Rollback that is never made
RollbackSkipped(t, rbErr) == t

\* tx.Rollback() answered with rbErr
Rollback(t, rbErr) ==
    [t EXCEPT !.state = IF rbErr = NoError THEN "rolledback"
                        ELSE "rollback failed",
              !.rollbacks = @ + 1]

\* tx.Commit() answered with err
Commit(t, err) ==
    [t EXCEPT !.state = IF err = NoError THEN "committed" ELSE "commit failed",
              !.commits = @ + 1]

\* a helper call begins
DBCall(arg) ==
    /\ dpc \in {"idle", "done"}
    /\ darg' = arg

\* a helper call ends
DBReturn(outcome) ==
    /\ dout' = outcome
    /\ dpc' = "done"

\* WithTx: db.Begin()
WithTxBegin ==
    /\ \E fn \in FnOutcomes : DBCall([op |-> "WithTx", fn |-> fn])
    /\ dcalls' = <<"Begin">>
    /\ qctx' = NoQueryContext
    /\ \E err \in DriverErrors \cup {NoError} :
          IF err # NoError
          THEN /\ tx' = NoTx
               /\ DBReturn(Return(Zero, Wrap(err)))
          ELSE /\ tx' = [state |-> "open", rollbacks |-> 0, commits |-> 0]
               /\ dout' = NoOutcome
               /\ dpc' = "fn"

\* WithTx: result, err := fn(tx)
WithTxCallback ==
    /\ dpc = "fn"
    /\ dcalls' = Append(dcalls, "fn")
    /\ dpc' = IF darg.fn.kind = "panic" THEN "recover"
              ELSE IF darg.fn.err # NoError THEN "rollback" ELSE "commit"
    /\ UNCHANGED <<darg, tx, qctx, dout>>

\* a deferred function that recovers the panic and returns an error
RecoveredSwallow(t, p, rbErr) ==
    [tx |-> Rollback(t, rbErr), out |-> Return(Zero, ErrorsNew("panic"))]

\* the deferred function of WithTx after a panic: tx.Rollback(); panic(p)
Recovered(t, p, rbErr) == [tx |-> Rollback(t, rbErr), out |-> Panic(p)]

\* WithTx: fn panicked and the deferred function runs
WithTxRecover ==
    /\ dpc = "recover"
    /\ dcalls' = Append(dcalls, "Rollback")
    /\ \E rbErr \in DriverErrors \cup {NoError} :
          LET rec == Recovered(tx, darg.fn.panic, rbErr)
          IN  /\ tx' = rec.tx
              /\ DBReturn(rec.out)
    /\ UNCHANGED <<darg, qctx>>

\* what WithTx returns when fn returned err and tx.Rollback() rbErr;
\* fmt.Errorf with %v verbs only makes a new error that wraps nothing
RolledBack(err, rbErr) ==
    IF rbErr # NoError
    THEN Return(Zero, ErrorsNew("transaction failed, rollback failed"))
    ELSE Return(Zero, err)

\* WithTx: fn returned an error
WithTxRollback ==
    /\ dpc = "rollback"
    /\ dcalls' = Append(dcalls, "Rollback")
    /\ \E rbErr \in DriverErrors \cup {NoError} :
          /\ tx' = Rollback(tx, rbErr)
          /\ DBReturn(RolledBack(darg.fn.err, rbErr))
    /\ UNCHANGED <<darg, qctx>>

\* WithTx: fn returned no error
WithTxCommit ==
    /\ dpc = "commit"
    /\ dcalls' = Append(dcalls, "Commit")
    /\ \E err \in DriverErrors \cup {NoError} :
          /\ tx' = Commit(tx, err)
          /\ DBReturn(IF err # NoError THEN Return(Zero, Wrap(err))
                      ELSE Return(darg.fn.value, NoError))
    /\ UNCHANGED <<darg, qctx>>

\* the pool limits a Config is given
Configs ==
    LET limits == {-1, 0, 10, DefaultMaxConns, 30}
    IN  {[MaxOpenConns |-> o, MaxIdleConns |-> i] : o \in limits, i \in limits}

\* Connect: "Apply sensible defaults if not configured"
ApplyDefaults(config) ==
    [MaxOpenConns |-> IF config.MaxOpenConns = 0 THEN DefaultMaxConns
                      ELSE config.MaxOpenConns,
     MaxIdleConns |-> IF config.MaxIdleConns = 0 THEN DefaultMaxConns
                      ELSE config.MaxIdleConns]

\* a validation that lets every configuration through
ConfigRejectedNever(config) == FALSE

\* Connect: "Validate configuration"
ConfigRejected(config) == config.MaxIdleConns > config.MaxOpenConns

\* the error Connect returns for a rejected configuration
ConfigError == ErrorsNew("MaxIdleConns (%d) cannot exceed MaxOpenConns (%d)")

\* Connect up to its validation: defaults, then the check of the limits
ConnectValidate ==
    /\ \E given \in Configs :
          LET config == ApplyDefaults(given)
          IN  /\ DBCall([op |-> "Connect", given |-> given, config |-> config])
              /\ IF ConfigRejected(config)
                 THEN DBReturn(Return(Zero, ConfigError))
                 ELSE dout' = NoOutcome /\ dpc' = "open"
    /\ dcalls' = <<>>
    /\ qctx' = NoQueryContext
    /\ tx' = NoTx

\* Connect: sql.Open and the pool settings
ConnectOpen ==
    /\ dpc = "open"
    /\ dcalls' = Append(dcalls, "sql.Open")
    /\ \E err \in DriverErrors \cup {NoError} :
          IF err # NoError
          THEN DBReturn(Return(Zero, Wrap(err)))
          ELSE dpc' = "ping" /\ UNCHANGED dout
    /\ UNCHANGED <<darg, tx, qctx>>

\* Connect: db.Ping, and db.Close when it fails
ConnectPing ==
    /\ dpc = "ping"
    /\ \E err \in DriverErrors \cup {NoError} :
          IF err # NoError
          THEN /\ dcalls' = dcalls \o <<"Ping", "Close">>
               /\ DBReturn(Return(Zero, Wrap(err)))
          ELSE /\ dcalls' = Append(dcalls, "Ping")
               /\ DBReturn(Return("db", NoError))
    /\ UNCHANGED <<darg, tx, qctx>>

\* ctx := context.Background(): the context the helpers hand to the
\* querier
QueryContextArg(callerCtx) == Background

\* a query helper: one call on the querier, its error wrapped with %w.
\* querier.QueryContext / ExecContext answers with the error of its context
\* when that is done, else with a driver error or none
QueryHelper(op, call, value) ==
    /\ \E c \in CallerContexts : DBCall([op |-> op, ctx |-> c])
    /\ qctx' = QueryContextArg(darg'.ctx)
    /\ dcalls' = <<call>>
    /\ \E err \in IF qctx'.done THEN {Canceled}
                   ELSE DriverErrors \cup {NoError} :
          DBReturn(IF err # NoError THEN Return(Zero, Wrap(err))
                   ELSE Return(value, NoError))
    /\ tx' = NoTx

QueryMany == QueryHelper("QueryMany", "QueryContext", "rows")

\* QueryOne; sqlscan.ScanOne may fail on the rows
QueryOne ==
    \/ QueryHelper("QueryOne", "QueryContext", "row")
    \/ /\ \E c \in CallerContexts : DBCall([op |-> "QueryOne", ctx |-> c])
       /\ qctx' = QueryContextArg(darg'.ctx)
       /\ ~qctx'.done
       /\ dcalls' = <<"QueryContext">>
       /\ DBReturn(Return(Zero, ErrorsNew("scany: no row was found")))
       /\ tx' = NoTx

Exec == QueryHelper("Exec", "ExecContext", "result")

DBInit ==
    /\ dpc = "idle"
    /\ darg = [op |-> "none"]
    /\ tx = NoTx
    /\ dcalls = <<>>
    /\ qctx = NoQueryContext
    /\ dout = NoOutcome

(***************************************************************************)
(* Nullable[T]'s accessors.  A Nullable is immutable: its holder calls any *)
(* accessors on it in any order, and results keeps how each one ended.     *)
(***************************************************************************)
\* the values of T the Nullable is made of
NullableValues == {Zero, "v1", "v2"}

\* a Value() that returns the field whatever hasValue says
ValueUnchecked(nullable) == Return(nullable.value, NoError)

\* Value(), fail-fast revision (handler/nullable.go)
Value(nullable) ==
    IF ~nullable.hasValue
    THEN Panic("japi-core: attempted to access Nullable value when HasValue is false")
    ELSE Return(nullable.value, NoError)

\* Value(), error-returning revision (db/query.go)
ValueOrError(nullable) ==
    IF ~nullable.hasValue
    THEN Return(Zero, NewAPIError(StatusInternalServerError,
                                  "nullable value is not present"))
    ELSE Return(nullable.value, NoError)

TryValue(nullable) ==
    Return([value |-> nullable.value, ok |-> nullable.hasValue], NoError)

ValueOrDefault(nullable) ==
    IF nullable.hasValue THEN Return(nullable.value, NoError)
    ELSE Return(Zero, NoError)

\* a ValueOr that takes the zero value of T for an absent value
ValueOrNonZero(nullable, defaultValue) ==
    IF nullable.value # Zero THEN Return(nullable.value, NoError)
    ELSE Return(defaultValue, NoError)

ValueOr(nullable, defaultValue) ==
    IF nullable.hasValue THEN Return(nullable.value, NoError)
    ELSE Return(defaultValue, NoError)

\* no accessor has been called yet
NoResults ==
    [a \in {"HasValue", "Value", "ValueOrError", "TryValue",
            "ValueOrDefault", "ValueOr"} |-> NoOutcome]

\* NewNullable(value) or Nil[T]() makes the Nullable
MakeNullable ==
    /\ \/ \E value \in NullableValues :
             /\ made' = [ctor |-> "NewNullable", value |-> value]
             /\ nval' = NewNullable(value)
       \/ /\ made' = [ctor |-> "Nil", value |-> Zero]
          /\ nval' = Nil
    /\ fallback' = Zero
    /\ results' = NoResults

\* an accessor is called on nval; results keeps how the call ended
CallAccessor ==
    LET Called(accessor, outcome) ==
            /\ results' = [results EXCEPT ![accessor] = outcome]
            /\ UNCHANGED <<made, nval>>
    IN  \/ /\ Called("HasValue", Return(HasValue(nval), NoError))
           /\ UNCHANGED fallback
        \/ Called("Value", Value(nval)) /\ UNCHANGED fallback
        \/ Called("ValueOrError", ValueOrError(nval)) /\ UNCHANGED fallback
        \/ Called("TryValue", TryValue(nval)) /\ UNCHANGED fallback
        \/ /\ Called("ValueOrDefault", ValueOrDefault(nval))
           /\ UNCHANGED fallback
        \/ \E defaultValue \in NullableValues :
              /\ fallback' = defaultValue
              /\ Called("ValueOr", ValueOr(nval, defaultValue))

NullInit ==
    /\ made = [ctor |-> "Nil", value |-> Zero]
    /\ nval = Nil
    /\ fallback = Zero
    /\ results = NoResults

(***************************************************************************)
(* Request IDs.  http.WithRequestID runs on the router, typed.WithRequestID*)
(* in the typed chain.  A header or ID is a tuple, <<>> the empty string.  *)
(***************************************************************************)
\* r.Context().Value(RequestIDContextKey) when nothing stored a value
NilValue == <<"nil">>

\* a UUID generator that returns the same UUID every time
NewUUIDRepeated(k) == <<"uuid", 1>>

\* uuid.New().String() after k earlier calls: random UUIDs, no two alike
NewUUID(k) == <<"uuid", k + 1>>

\* r.Header.Get("X-Request-ID") of the requests served: none, an ID of the
\* client's own, or an ID an earlier response carried
IncomingIDs ==
    {<<>>, <<"client", "a">>, <<"client", "b">>}
        \cup {NewUUID(k - 1) : k \in 1..uuids}

\* GetRequestID: the context value when it is a string, "" otherwise
GetRequestID(r) ==
    IF r.ContextValue = NilValue THEN <<>> ELSE r.ContextValue

IDInit ==
    /\ ipc = "idle"
    /\ ireq = [Header |-> <<>>, ContextValue |-> NilValue, upstream |-> FALSE]
    /\ irw = [XRequestID |-> <<>>]
    /\ ictx = [RequestID |-> Nil, Logger |-> <<>>]
    /\ uuids = 0
    /\ handled = <<>>

\* a request arrives at a router that has http.WithRequestID applied
\* (upstream) or has not; AdaptHandler's HandlerContext literal leaves
\* RequestID at its zero value
ServeWithRequestID ==
    /\ ipc = "idle"
    /\ Len(handled) < MaxRequests
    /\ \E h \in IncomingIDs, up \in BOOLEAN :
          /\ ireq' = [Header |-> h, ContextValue |-> NilValue, upstream |-> up]
          /\ ipc' = IF up THEN "http" ELSE "typed"
    /\ irw' = [XRequestID |-> <<>>]
    /\ ictx' = [RequestID |-> Nil, Logger |-> <<>>]
    /\ UNCHANGED <<uuids, handled>>

\* http.WithRequestID: header or new UUID, response header, context value
HTTPWithRequestID ==
    /\ ipc = "http"
    /\ LET generate == ireq.Header = <<>>
           requestID == IF generate THEN NewUUID(uuids) ELSE ireq.Header
       IN  /\ uuids' = IF generate THEN uuids + 1 ELSE uuids
           /\ irw' = [irw EXCEPT !.XRequestID = requestID]
           /\ ireq' = [ireq EXCEPT !.ContextValue = requestID]
    /\ ipc' = "typed"
    /\ UNCHANGED <<ictx, handled>>

\* typed.WithRequestID: ctx.RequestID and the logger field, when the
\* request context holds an ID
TypedWithRequestID ==
    /\ ipc = "typed"
    /\ LET requestID == GetRequestID(ireq)
       IN  ictx' = IF requestID # <<>>
                   THEN [ictx EXCEPT
                            !.RequestID = NewNullable(requestID),
                            !.Logger = Append(@, <<"request_id", requestID>>)]
                   ELSE ictx
    /\ ipc' = "handler"
    /\ UNCHANGED <<ireq, irw, uuids, handled>>

\* the handler next in the chain, and the response
RequestIDHandler ==
    /\ ipc = "handler"
    /\ handled' = Append(handled,
                         [Header |-> ireq.Header, upstream |-> ireq.upstream,
                          RequestID |-> ictx.RequestID,
                          Logger |-> ictx.Logger,
                          Response |-> irw.XRequestID])
    /\ ipc' = "idle"
    /\ UNCHANGED <<ireq, irw, ictx, uuids>>

(***************************************************************************)
(* Metrics.  Collector.middleware around the requests of NumInFlight       *)
(* concurrent callers to one route, on a router built by NewChiRouter:     *)
(* chi's Recoverer is applied before the metrics middleware and so runs    *)
(* outside it.  Counter and gauge operations are atomic.                   *)
(***************************************************************************)
\* the status labels of the model: what the handlers write and the 500 of
\* the Recoverer
MetricStatuses == {StatusOK, StatusNotFound, StatusInternalServerError}

\* &responseWriter{ResponseWriter: w, statusCode: http.StatusOK}
NewStatusWriter == [statusCode |-> StatusOK, written |-> FALSE]

\* responseWriter.WriteHeader: the wrapper and the writer behind it
StatusWriterWriteHeader(ww, rw, statusCode) ==
    IF ~ww.written
    THEN [ww |-> [statusCode |-> statusCode, written |-> TRUE],
          rw |-> WriteHeader(rw, statusCode)]
    ELSE [ww |-> ww, rw |-> rw]

\* the status a response goes out with: net/http sends 200 when the
\* handler chain wrote no header
SentStatus(rw) == IF rw.wroteHeader THEN rw.Code ELSE StatusOK

\* a Dec placed after next.ServeHTTP: a panic passes it by
DecAfterNext(gauge, panicking) == IF panicking THEN gauge ELSE gauge - 1

\* defer c.requestsInFlight.Dec(): runs on return and on panic
DeferredDec(gauge, panicking) == gauge - 1

MetricsInit ==
    /\ mpc = [q \in InFlight |-> "idle"]
    /\ mww = [q \in InFlight |-> NewStatusWriter]
    /\ mrw = [q \in InFlight |-> NewResponseWriter]
    /\ requestsInFlight = 0
    /\ requestsTotal = [s \in MetricStatuses |-> 0]
    /\ issued = 0
    /\ answered = [s \in MetricStatuses |-> 0]

\* the middleware up to next.ServeHTTP: Inc, the deferred Dec, the wrapper
MetricsEnter(q) ==
    /\ mpc[q] = "idle"
    /\ issued < MaxRequests
    /\ issued' = issued + 1
    /\ requestsInFlight' = requestsInFlight + 1
    /\ mww' = [mww EXCEPT ![q] = NewStatusWriter]
    /\ mrw' = [mrw EXCEPT ![q] = NewResponseWriter]
    /\ mpc' = [mpc EXCEPT ![q] = "next"]
    /\ UNCHANGED <<requestsTotal, answered>>

\* the downstream handler calls w.WriteHeader
HandlerWriteHeader(q) ==
    /\ mpc[q] \in {"next", "wrote"}
    /\ \E statusCode \in {StatusOK, StatusNotFound} :
          LET res == StatusWriterWriteHeader(mww[q], mrw[q], statusCode)
          IN  /\ mww' = [mww EXCEPT ![q] = res.ww]
              /\ mrw' = [mrw EXCEPT ![q] = res.rw]
    /\ mpc' = [mpc EXCEPT ![q] = "wrote"]
    /\ UNCHANGED <<requestsInFlight, requestsTotal, issued, answered>>

\* next.ServeHTTP returns
HandlerReturn(q) ==
    /\ mpc[q] \in {"next", "wrote"}
    /\ mpc' = [mpc EXCEPT ![q] = "record"]
    /\ UNCHANGED <<mww, mrw, requestsInFlight, requestsTotal, issued,
                   answered>>

\* next.ServeHTTP panics
HandlerPanic(q) ==
    /\ mpc[q] \in {"next", "wrote"}
    /\ mpc' = [mpc EXCEPT ![q] = "unwind"]
    /\ UNCHANGED <<mww, mrw, requestsInFlight, requestsTotal, issued,
                   answered>>

\* requestsTotal.WithLabelValues(method, route, status).Inc()
MetricsRecord(q) ==
    /\ mpc[q] = "record"
    /\ requestsTotal' = [requestsTotal EXCEPT ![mww[q].statusCode] = @ + 1]
    /\ mpc' = [mpc EXCEPT ![q] = "leave"]
    /\ UNCHANGED <<mww, mrw, requestsInFlight, issued, answered>>

\* the deferred Dec as the middleware is left: by its return, after which
\* the response goes out, or by the panic on its way to the Recoverer
MetricsLeave(q) ==
    /\ mpc[q] \in {"leave", "unwind"}
    /\ requestsInFlight' = DeferredDec(requestsInFlight, mpc[q] = "unwind")
    /\ IF mpc[q] = "leave"
       THEN /\ mpc' = [mpc EXCEPT ![q] = "idle"]
            /\ answered' = [answered EXCEPT ![SentStatus(mrw[q])] = @ + 1]
       ELSE /\ mpc' = [mpc EXCEPT ![q] = "recoverer"]
            /\ answered' = answered
    /\ UNCHANGED <<mww, mrw, requestsTotal, issued>>

\* chi's Recoverer recovers the panic and writes 500 to its own writer
Recoverer(q) ==
    /\ mpc[q] = "recoverer"
    /\ LET rw == WriteHeader(mrw[q], StatusInternalServerError)
       IN  /\ mrw' = [mrw EXCEPT ![q] = rw]
           /\ answered' = [answered EXCEPT ![SentStatus(rw)] = @ + 1]
    /\ mpc' = [mpc EXCEPT ![q] = "idle"]
    /\ UNCHANGED <<mww, requestsInFlight, requestsTotal, issued>>

ObsInit == IDInit /\ MetricsInit

(***************************************************************************)
(* The specifications                                                      *)
(***************************************************************************)
\* the adapted handler of the specifications that serve no typed request
ReqIdle == ReqInitWith(CHOOSE rt \in ServedRoutes : rt.middleware = <<>>)

Init == DBInit /\ ReqInit /\ RegInit /\ ErrInit /\ ConcInit /\ NullInit
    /\ ObsInit

Next ==
    \/ Serve /\ UNCHANGED notReq
    \/ WithLoggingCall /\ UNCHANGED notReq
    \/ WithLoggingReturn /\ UNCHANGED notReq
    \/ ResponseJSONCall /\ UNCHANGED notReq
    \/ ResponseJSONReturn /\ UNCHANGED notReq
    \/ RequireAuthCall /\ UNCHANGED notReq
    \/ RequireAuthReturn /\ UNCHANGED notReq
    \/ ParseBodyCall /\ UNCHANGED notReq
    \/ ParseBodyReturn /\ UNCHANGED notReq
    \/ BaseHandlerCall /\ UNCHANGED notReq
    \/ AdaptHandlerReturn /\ UNCHANGED notReq

Spec == Init /\ [][Next]_vars

InitReg == DBInit /\ ReqIdle /\ RegInit /\ ErrInit /\ ConcInit /\ NullInit
    /\ ObsInit

NextReg ==
    \/ \E p \in Registrars : MakeHandlerStart(p) /\ UNCHANGED notReg
    \/ \E p \in Registrars : MakeHandlerLock(p) /\ UNCHANGED notReg
    \/ \E p \in Registrars : MakeHandlerAppendRead(p) /\ UNCHANGED notReg
    \/ \E p \in Registrars : MakeHandlerAppendWrite(p) /\ UNCHANGED notReg
    \/ \E p \in Registrars : MakeHandlerUnlock(p) /\ UNCHANGED notReg
    \/ GetRoutesRLock /\ UNCHANGED notReg
    \/ GetRoutesCopy /\ UNCHANGED notReg
    \/ GetRoutesRUnlock /\ UNCHANGED notReg
    \/ CallerEditEntry /\ UNCHANGED notReg
    \/ CallerRemoveEntry /\ UNCHANGED notReg
    \/ CallerAppendEntry /\ UNCHANGED notReg
    \/ CallerAssignSlice /\ UNCHANGED notReg
    \/ CallerWriteElement /\ UNCHANGED notReg
    \/ CallerDone /\ UNCHANGED notReg
    \/ BindRLock /\ UNCHANGED notBind
    \/ BindRegisterRoute /\ UNCHANGED notBind
    \/ BindRUnlock /\ UNCHANGED notBind

SpecReg == InitReg /\ [][NextReg]_vars

\* the steps of one MakeHandler call after its arguments are evaluated
MakeHandlerRun(p) ==
    \/ MakeHandlerLock(p)
    \/ MakeHandlerAppendRead(p)
    \/ MakeHandlerAppendWrite(p)
    \/ MakeHandlerUnlock(p)

\* the steps of GetCollectedRoutes after its RLock
GetRoutesRun == GetRoutesCopy \/ GetRoutesRUnlock

\* the steps of RegisterCollectedRoutes after its RLock
BindRun == BindRegisterRoute \/ BindRUnlock

\* the calls that take the route mutex, without what a caller does to the
\* slice it was given (that touches no mutex)
NextRegLocking ==
    \/ \E p \in Registrars : MakeHandlerStart(p) /\ UNCHANGED notReg
    \/ \E p \in Registrars : MakeHandlerRun(p) /\ UNCHANGED notReg
    \/ GetRoutesRLock /\ UNCHANGED notReg
    \/ GetRoutesRun /\ UNCHANGED notReg
    \/ CallerDone /\ UNCHANGED notReg
    \/ BindRLock /\ UNCHANGED notBind
    \/ BindRun /\ UNCHANGED notBind

\* a goroutine inside MakeHandler, GetCollectedRoutes or
\* RegisterCollectedRoutes keeps running: it takes the lock when the lock
\* is free and goes on to its return.  Whether and when a call is made is
\* up to the callers.
FairReg ==
    /\ \A p \in Registrars : WF_vars(MakeHandlerRun(p) /\ UNCHANGED notReg)
    /\ WF_vars(GetRoutesRun /\ UNCHANGED notReg)
    /\ WF_vars(BindRun /\ UNCHANGED notBind)

SpecRegFair == InitReg /\ [][NextRegLocking]_vars /\ FairReg

InitErr == DBInit /\ ReqIdle /\ RegInit /\ ErrInit /\ ConcInit /\ NullInit
    /\ ObsInit

NextErr ==
    \/ AdaptHandlerServe /\ UNCHANGED notErr
    \/ AdaptErrorHandler /\ UNCHANGED notErr
    \/ ServeHTTP /\ UNCHANGED notErr

SpecErr == InitErr /\ [][NextErr]_vars

InitConc == DBInit /\ ReqInit /\ RegInit /\ ErrInit /\ ConcInit /\ NullInit
    /\ ObsInit

NextConc ==
    \/ \E q \in InFlight : ConcServe(q) /\ UNCHANGED notConc
    \/ \E q \in InFlight : ConcMiddleware(q) /\ UNCHANGED notConc
    \/ \E q \in InFlight : ConcBaseHandler(q) /\ UNCHANGED notConc

SpecConc == InitConc /\ [][NextConc]_vars

InitDB == ReqIdle /\ RegInit /\ ErrInit /\ ConcInit /\ DBInit /\ NullInit
    /\ ObsInit

NextDB ==
    \/ WithTxBegin /\ UNCHANGED notDB
    \/ WithTxCallback /\ UNCHANGED notDB
    \/ WithTxRecover /\ UNCHANGED notDB
    \/ WithTxRollback /\ UNCHANGED notDB
    \/ WithTxCommit /\ UNCHANGED notDB
    \/ ConnectValidate /\ UNCHANGED notDB
    \/ ConnectOpen /\ UNCHANGED notDB
    \/ ConnectPing /\ UNCHANGED notDB
    \/ QueryMany /\ UNCHANGED notDB
    \/ QueryOne /\ UNCHANGED notDB
    \/ Exec /\ UNCHANGED notDB

SpecDB == InitDB /\ [][NextDB]_vars

InitNullable ==
    DBInit /\ ReqIdle /\ RegInit /\ ErrInit /\ ConcInit /\ NullInit
    /\ ObsInit

NextNullable ==
    \/ MakeNullable /\ UNCHANGED notNull
    \/ CallAccessor /\ UNCHANGED notNull

SpecNullable == InitNullable /\ [][NextNullable]_vars

InitRequestID ==
    DBInit /\ ReqIdle /\ RegInit /\ ErrInit /\ ConcInit /\ NullInit
    /\ ObsInit

NextRequestID ==
    \/ ServeWithRequestID /\ UNCHANGED notID
    \/ HTTPWithRequestID /\ UNCHANGED notID
    \/ TypedWithRequestID /\ UNCHANGED notID
    \/ RequestIDHandler /\ UNCHANGED notID

SpecRequestID == InitRequestID /\ [][NextRequestID]_vars

InitMetrics ==
    DBInit /\ ReqIdle /\ RegInit /\ ErrInit /\ ConcInit /\ NullInit
    /\ ObsInit

NextMetrics ==
    \/ \E q \in InFlight : MetricsEnter(q) /\ UNCHANGED notMetrics
    \/ \E q \in InFlight : HandlerWriteHeader(q) /\ UNCHANGED notMetrics
    \/ \E q \in InFlight : HandlerReturn(q) /\ UNCHANGED notMetrics
    \/ \E q \in InFlight : HandlerPanic(q) /\ UNCHANGED notMetrics
    \/ \E q \in InFlight : MetricsRecord(q) /\ UNCHANGED notMetrics
    \/ \E q \in InFlight : MetricsLeave(q) /\ UNCHANGED notMetrics
    \/ \E q \in InFlight : Recoverer(q) /\ UNCHANGED notMetrics

SpecMetrics == InitMetrics /\ [][NextMetrics]_vars

(***************************************************************************)
(* Properties                                                              *)
(***************************************************************************)
\* the stages of a trace, without their depth
StageOrder(tr) == [i \in DOMAIN tr |-> <<tr[i].ev, tr[i].stage>>]

\* the order MakeHandler's comment documents: the last middleware first
DocumentedOrder(middleware) ==
    LET n == Len(middleware)
    IN  [i \in 1..n |-> <<"pre", middleware[n + 1 - i]>>]
        \o <<<<"H", BaseHandler>>>>
        \o [i \in 1..n |-> <<"post", middleware[i]>>]

\* C1: a request that runs through MakeHandler(H, middleware...) with no
\* stage returning early runs the pre-processing of the middleware from the
\* last listed to the first, then H, then the post-processing from the
\* first listed to the last (for [A, B]: B-pre, A-pre, H, A-post, B-post).
C1_LastListedOutermost ==
    (pc = "done" /\ short = NoShort)
        => StageOrder(trace) = DocumentedOrder(route.middleware)

C5_APIErrorVerbatim ==
    (pc = "done" /\ IsAPIErrorPtr(ret.err))
        => /\ w.Code = ret.err.code
           /\ w.Body = <<ErrorBody(ret.err)>>

\* the response-writing stages of a middleware list
ResponseWriters(middleware) ==
    {i \in DOMAIN middleware : middleware[i] = "ResponseJSON"}

\* C6: a finished request has had its response written exactly once, by
\* the response-writing middleware of its chain when the handler succeeded
\* and by the adapter when it returned an error, and not at all when that
\* error is the cancellation error.
C6_OneResponsePerRequest ==
    (pc = "done" /\ Cardinality(ResponseWriters(route.middleware)) = 1)
        => Len(w.log) = IF ErrorsIs(ret.err, Canceled) THEN 0 ELSE 1

\* C7: once a stage has returned an error without calling next, no stage
\* inside it and no base handler has run in that request, and the error
\* reaches the adapter as it was returned.
C7_ShortCircuit ==
    short.at > 0
        => /\ \A i \in DOMAIN trace : trace[i].at <= short.at
           /\ \A i \in DOMAIN trace : trace[i].ev # "H"
           /\ seen = NoContext
           /\ (pc = "done" => ret.err = short.err)

C7_Witness ==
    /\ pc = "done"
    /\ short.at = 2
    /\ route.handler = <<"ResponseJSON", "RequireAuth", BaseHandler>>
    /\ ret.err = NewAPIError(StatusUnauthorized, "Invalid or expired token")

RegistrationsOf(e) ==
    {k \in DOMAIN router :
        /\ router[k].Method = e.Method
        /\ router[k].Path = e.Path
        /\ router[k].Handler = Adapt(e.Handler, e.call)}

\* C14: when RegisterCollectedRoutes has gone through the registry's list
\* and is about to return, the router it was given has,
\* for every route of the registry's list, exactly one registration of that
\* route's adapted handler under the route's Method and Path, and no
\* registration besides these.
C14_EveryRouteBound ==
    (cpc = "bind" /\ bidx > Len(routes[creg]))
        => /\ \A i \in DOMAIN routes[creg] :
                  Cardinality(RegistrationsOf(routes[creg][i])) = 1
           /\ Len(router) = Len(routes[creg])

\* C15: when the callback of WithTx panics, WithTx ends with a panic of
\* the same value, not with a return, and by then Rollback has been called
\* on the transaction once and Commit never; WithTx panics in no other
\* case.
C15_PanicRollsBackAndPropagates ==
    (dpc = "done" /\ darg.op = "WithTx")
        => /\ (darg.fn.kind = "panic" /\ tx.state # "none")
                  => /\ dout = Panic(darg.fn.panic)
                     /\ tx.rollbacks = 1
                     /\ tx.commits = 0
                     /\ tx.state \in {"rolledback", "rollback failed"}
                     /\ dcalls = <<"Begin", "fn", "Rollback">>
           /\ dout.kind = "panic" => darg.fn.kind = "panic"

C15_Witness ==
    /\ dpc = "done"
    /\ darg.op = "WithTx"
    /\ dout = Panic("test panic")
    /\ tx = [state |-> "rolledback", rollbacks |-> 1, commits |-> 0]

\* C16: when the callback of WithTx returns a non-nil error e, Rollback is
\* called on the transaction and Commit is not, and WithTx returns the zero
\* value together with an error err for which errors.Is(err, e) holds.
C16_ErrorRollsBackAndIsReturned ==
    (dpc = "done" /\ darg.op = "WithTx" /\ tx.state # "none"
       /\ darg.fn.kind = "return" /\ darg.fn.err # NoError)
        => /\ tx.rollbacks = 1
           /\ tx.commits = 0
           /\ dout.kind = "return"
           /\ dout.value = Zero
           /\ ErrorsIs(dout.err, darg.fn.err)

\* Connect answered with its configuration error, having called nothing
RejectedBeforeConnecting ==
    /\ dcalls = <<>>
    /\ dpc = "done"
    /\ dout = Return(Zero, ConfigError)

Configured(limit) == IF limit = 0 THEN DefaultMaxConns ELSE limit

C18_CallerContextReachesQuerier ==
    (dpc = "done" /\ darg.op \in {"QueryOne", "QueryMany", "Exec"})
        => /\ qctx = darg.ctx
           /\ darg.ctx.done => ErrorsIs(dout.err, Canceled)

\* the accessor has been called on the Nullable
HasBeenCalled(accessor) == results[accessor].kind # "none"

\* C19: Value() on a Nullable made by Nil() signals failure: the fail-fast
\* Value() panics with "japi-core: attempted to access Nullable value when
\* HasValue is false", the error-returning Value() returns the zero value
\* and a non-nil error; on a Nullable made by NewNullable(v) both return v
\* without failing.
C19_ValueFailsWhenAbsent ==
    /\ HasBeenCalled("Value") =>
          IF made.ctor = "Nil"
          THEN /\ results["Value"].kind = "panic"
               /\ results["Value"].panic
                    = "japi-core: attempted to access Nullable value when HasValue is false"
          ELSE /\ results["Value"].kind = "return"
               /\ results["Value"].value = made.value
    /\ HasBeenCalled("ValueOrError") =>
          /\ results["ValueOrError"].kind = "return"
          /\ IF made.ctor = "Nil"
             THEN /\ results["ValueOrError"].value = Zero
                  /\ results["ValueOrError"].err # NoError
             ELSE /\ results["ValueOrError"].value = made.value
                  /\ results["ValueOrError"].err = NoError

C19_Witness ==
    /\ made.ctor = "Nil"
    /\ results["Value"].kind = "panic"
    /\ results["ValueOrError"].kind = "return"
    /\ results["ValueOrError"].err # NoError

\* the accessor returned value, without an error and without a panic
Returned(accessor, value) ==
    /\ results[accessor].kind = "return"
    /\ results[accessor].err = NoError
    /\ results[accessor].value = value

\* C20: for every value v, the zero value included, and every fallback d:
\* on NewNullable(v) HasValue() is true and TryValue, ValueOrDefault and
\* ValueOr(d) return v; on Nil() HasValue() is false, TryValue returns
\* (zero, false), ValueOrDefault the zero value and ValueOr(d) returns d;
\* none of them panics.
C20_SafeAccessors ==
    LET present == made.ctor = "NewNullable"
        v == made.value
    IN  /\ HasBeenCalled("HasValue") => Returned("HasValue", present)
        /\ HasBeenCalled("TryValue") =>
              Returned("TryValue",
                       IF present THEN [value |-> v, ok |-> TRUE]
                       ELSE [value |-> Zero, ok |-> FALSE])
        /\ HasBeenCalled("ValueOrDefault") =>
              Returned("ValueOrDefault", IF present THEN v ELSE Zero)
        /\ HasBeenCalled("ValueOr") =>
              Returned("ValueOr", IF present THEN v ELSE fallback)

C20_Witness ==
    /\ made = [ctor |-> "NewNullable", value |-> Zero]
    /\ fallback = "v1"
    /\ Returned("ValueOr", Zero)
    /\ HasBeenCalled("HasValue")
    /\ HasBeenCalled("TryValue")
    /\ HasBeenCalled("ValueOrDefault")

\* C23: a transaction WithTx began is finished by exactly one of Commit
\* and Rollback when WithTx returns or panics: Commit is called only when
\* the callback returned a nil error, Rollback in every other case, never
\* both, and WithTx returns the callback's result with a nil error only
\* after Commit succeeded.
C23_CommitXorRollback ==
    (darg.op = "WithTx" /\ tx # NoTx) =>
        LET fnSucceeded == darg.fn.kind = "return" /\ darg.fn.err = NoError
        IN  /\ tx.commits + tx.rollbacks <= 1
            /\ tx.commits = 1 => fnSucceeded
            /\ tx.rollbacks = 1 => ~fnSucceeded
            /\ dpc = "done" => tx.commits + tx.rollbacks = 1
            /\ (dpc = "done" /\ dout.kind = "return" /\ dout.err = NoError)
                  => /\ tx.state = "committed"
                     /\ dout.value = darg.fn.value

C23_Witness ==
    /\ darg.op = "WithTx"
    /\ dpc = "done"
    /\ tx.state = "committed"
    /\ tx.rollbacks = 0
    /\ dout = Return("result", NoError)

\* C29: Connect called with a positive MaxOpenConns and MaxIdleConns left
\* at zero is not rejected by the validation: with the defaults applied the
\* idle limit does not exceed the open limit.
C29_DefaultsPassValidation ==
    (darg.op = "Connect" /\ darg.given.MaxOpenConns > 0
       /\ darg.given.MaxIdleConns = 0)
        => /\ darg.config.MaxIdleConns <= darg.config.MaxOpenConns
           /\ dout.err # ConfigError

\* the header has the form 'Bearer <non-empty token>'
BearerWithToken(header) ==
    HasPrefix(header, "Bearer ") /\ TrimPrefix(header, "Bearer ") # <<>>

\* C12: the base handler sees UserUUID and CompanyUUID present only if a
\* RequireAuth stage of the same request got 'Bearer <non-empty token>',
\* had a non-empty secret, a token that validated and a validateUserCompany
\* that returned nil; a RequireAuth stage where one of these fails returns
\* an error without calling next, with status 401 for a missing or
\* malformed header and for an invalid token; without a RequireAuth stage
\* both fields are absent.
C12_IdentityOnlyWhenAuthenticated ==
    LET token == TrimPrefix(req.Authorization, "Bearer ")
    IN  /\ (HasValue(seen.UserUUID) \/ HasValue(seen.CompanyUUID))
               => /\ Uses(route.middleware, "RequireAuth")
                  /\ BearerWithToken(req.Authorization)
                  /\ route.jwtSecret # ""
                  /\ \E i \in DOMAIN auth :
                         auth[i].tokenValid /\ auth[i].userCompanyValid
                  /\ seen.UserUUID = NewNullable(Claims(token).UserUUID)
                  /\ seen.CompanyUUID = NewNullable(Claims(token).CompanyUUID)
        /\ \A i \in DOMAIN auth :
               ~(auth[i].tokenValid /\ auth[i].userCompanyValid)
                   => /\ i = Len(auth)
                      /\ short.at > 0
                      /\ route.handler[short.at] = "RequireAuth"
                      /\ short.err # NoError
                      /\ seen = NoContext
                      /\ \A k \in DOMAIN trace : trace[k].at <= short.at
                      /\ (~BearerWithToken(req.Authorization)
                             \/ (auth[i].asked /\ ~auth[i].tokenValid))
                            => /\ IsAPIErrorPtr(short.err)
                               /\ short.err.code = StatusUnauthorized
        /\ (seen # NoContext /\ ~Uses(route.middleware, "RequireAuth"))
               => ~HasValue(seen.UserUUID) /\ ~HasValue(seen.CompanyUUID)

C12_Witness ==
    /\ pc = "done"
    /\ route.handler = <<"RequireAuth", "ResponseJSON", BaseHandler>>
    /\ req.Authorization = <<"Bearer ", "tok">>
    /\ seen.UserUUID = NewNullable("user-uuid")
    /\ seen.CompanyUUID = NewNullable("company-uuid")
    /\ served = 2

\* every request-scoped field of ctx that is set comes from request r
OwnContext(ctx, r) ==
    LET token == TrimPrefix(r.Authorization, "Bearer ")
    IN  /\ ctx.Context = r.Context
        /\ HasValue(ctx.Body) => ctx.Body.value = r.Body /\ r.ContentLength > 0
        /\ HasValue(ctx.BodyRaw)
               => ctx.BodyRaw.value = r.Body /\ r.ContentLength > 0
        /\ HasValue(ctx.UserUUID)
               => /\ BearerWithToken(r.Authorization)
                  /\ ctx.UserUUID.value = Claims(token).UserUUID
        /\ HasValue(ctx.CompanyUUID)
               => /\ BearerWithToken(r.Authorization)
                  /\ ctx.CompanyUUID.value = Claims(token).CompanyUUID
        /\ ~HasValue(ctx.Params)
        /\ ~HasValue(ctx.Headers)

Unclassified(err) ==
    /\ err # NoError
    /\ ~ErrorsIs(err, Canceled)
    /\ ~ErrorsIs(err, DeadlineExceeded)
    /\ err.kind \notin {"*APIError", "APIError"}

\* C11: at each translation point a handler error that is no cancellation,
\* no deadline error and no API error is answered with status 500 and a
\* generic body, and two such errors get the same response whatever their
\* error texts are.
C11_NoRawErrorText ==
    \A i \in DOMAIN eerr :
        Unclassified(eerr[i])
            => /\ ew[i].Code = StatusInternalServerError
               /\ Len(ew[i].Body) = 1
               /\ ew[i].Body[1].kind = "error"
               /\ ew[i].Body[1].code = StatusInternalServerError
               /\ \A j \in DOMAIN eerr : Unclassified(eerr[j]) => ew[j] = ew[i]

\* C27: AdaptHandler answers an error that is a *core.APIError, a
\* core.APIError value or an error wrapping one with that APIError's code
\* and message, and answers with the generic 500 only errors that carry no
\* APIError.
C27_APIErrorInAnyForm ==
    point = "AdaptHandler" =>
        \A i \in DOMAIN eerr :
            /\ eerr[i].kind \in {"*APIError", "APIError"}
                  => /\ ew[i].Code = eerr[i].code
                     /\ ew[i].Body = <<ErrorBody(eerr[i])>>
            /\ (ew[i].Body # <<>>
                   /\ ew[i].Body[1].message = "Internal server error")
                  => Unclassified(eerr[i])

\* C28: when next has returned to ResponseJSON with an error, ResponseJSON
\* writes nothing and returns that error unchanged; when next returned no
\* error it writes a response, with status 201 for a POST request and 200
\* for any other method.
C28_ResponseJSONOnSuccessOnly ==
    [][(pc = "return" /\ depth >= 1 /\ route.handler[depth] = "ResponseJSON")
         => IF ret.err # NoError
            THEN w' = w /\ ret' = ret
            ELSE /\ w' # w
                 /\ w'.wroteHeader
                 /\ w'.Code = IF req.Method = "POST" THEN StatusCreated
                              ELSE StatusOK]_vars

C28_Witness ==
    /\ pc = "return"
    /\ trace # <<>>
    /\ trace[Len(trace)] = [ev |-> "post", stage |-> "ResponseJSON", at |-> 1]
    /\ ret.err = ErrorsNew("sql: no rows in result set")
    /\ w = NewResponseWriter

\* the ctx of the stage at depth i: the frame of an active stage, what the
\* base handler saw, or no context when the stage is not running
CtxAt(i) ==
    IF i \in DOMAIN frames THEN frames[i]
    ELSE IF i = Len(route.handler) THEN seen
    ELSE NoContext

\* C26: the identity RequireAuth sets and the raw body ParseBody sets
\* before calling next are in the ctx of every stage inside that middleware
\* and of the base handler, and in the ctx of no stage outside it, neither
\* while that stage waits in next nor in its post-processing.
C26_ContextByValue ==
    LET token == TrimPrefix(req.Authorization, "Bearer ")
        Sets(mw, ctx) ==
            IF mw = "RequireAuth"
            THEN ctx.UserUUID = NewNullable(Claims(token).UserUUID)
            ELSE ctx.BodyRaw = NewNullable(req.Body)
        IsSet(mw, ctx) ==
            IF mw = "RequireAuth" THEN HasValue(ctx.UserUUID)
            ELSE HasValue(ctx.BodyRaw)
    IN  \A mw \in {"RequireAuth", "ParseBody"} :
          \A i \in DOMAIN route.handler :
            CtxAt(i) # NoContext =>
              /\ (\E j \in 1..(i - 1) :
                     /\ route.handler[j] = mw
                     /\ mw = "ParseBody" => req.ContentLength > 0)
                    => Sets(mw, CtxAt(i))
              /\ IsSet(mw, CtxAt(i))
                    => \E j \in 1..i : route.handler[j] = mw

C26_Witness ==
    /\ pc = "return"
    /\ depth = 1
    /\ route.handler = <<"ResponseJSON", "RequireAuth", BaseHandler>>
    /\ frames[1].UserUUID = Nil
    /\ seen.UserUUID = NewNullable("user-uuid")

\* list a is the beginning of list b
IsPrefix(a, b) == Len(a) <= Len(b) /\ SubSeq(b, 1, Len(a)) = a

\* C25: a registry's route list only grows at its end: no step removes,
\* reorders or replaces an entry, a registration leaves the earlier
\* entries as they read, a list GetRoutes has copied is the whole list of
\* that moment, and while its caller holds it untouched it is a prefix of
\* the registry's list, hence of every later copy.
C25_AppendOnly ==
    [][/\ \A reg \in Registries :
             /\ IsPrefix(routes[reg], routes'[reg])
             /\ rpc' # rpc => IsPrefix(RoutesValue(arrays, routes[reg]),
                                       RoutesValue(arrays', routes'[reg]))
             /\ [i \in DOMAIN routes'[reg] |-> routes'[reg][i].call]
                  = [i \in DOMAIN registered'[reg] |->
                         registered'[reg][i].call]
       /\ cpc' = "runlock" => got' = routes'[creg']
       /\ cpc' = "have" => IsPrefix(got', routes'[creg'])]_vars

C25_Witness ==
    /\ cpc = "have"
    /\ Len(got) = 1
    /\ Len(routes[creg]) = 2
    /\ routes[creg][1] = got[1]

\* no MakeHandler, GetRoutes or RegisterCollectedRoutes call is between its
\* lock and its return
NoCallInProgress ==
    /\ cpc \in {"idle", "have"}
    /\ \A p \in Registrars : rpc[p] \in {"start", "done"}

\* C24: every MakeHandler, GetRoutes and RegisterCollectedRoutes call that
\* has begun returns: of the boundedly many calls none stays forever between
\* its lock and its return, whether it waits for the route mutex or holds
\* it; and no route mutex is held while no call is inside its critical
\* section.
C24_NoDeadlock ==
    /\ <>[]NoCallInProgress
    /\ []((cpc \in {"idle", "have"}
             /\ \A p \in Registrars : rpc[p] \in {"start", "lock", "done"})
            => \A reg \in Registries : routesMutex[reg] = NewRWMutex)

C24_Witness ==
    /\ \A p \in Registrars : rpc[p] = "done"
    /\ reads = MaxReads
    /\ cpc = "idle"
    /\ \A reg \in Registries : routesMutex[reg] = NewRWMutex

\* the finished requests whose ID http.WithRequestID generated
Generated == {i \in DOMAIN handled :
                handled[i].upstream /\ handled[i].Header = <<>>}

\* C21: behind http.WithRequestID the handler's ctx.RequestID is present,
\* equals the incoming X-Request-ID header when that is non-empty and is
\* otherwise a generated ID unlike that of any other request that had one
\* generated, and equals the response's X-Request-ID header; without a
\* request ID in the request context ctx.RequestID is absent.
C21_RequestIDPropagated ==
    \A i \in DOMAIN handled :
        LET h == handled[i]
        IN  IF h.upstream
            THEN /\ HasValue(h.RequestID)
                 /\ h.RequestID.value # <<>>
                 /\ h.RequestID.value = h.Response
                 /\ h.Header # <<>> => h.RequestID.value = h.Header
                 /\ i \in Generated =>
                       \A j \in Generated \ {i} :
                           handled[j].RequestID.value # h.RequestID.value
            ELSE ~HasValue(h.RequestID)

C21_Witness ==
    /\ Len(handled) = MaxRequests
    /\ Cardinality(Generated) >= 2
    /\ ipc = "idle"

\* the requests inside the metrics middleware: after its Inc, before the
\* deferred Dec has run
InsideMetrics ==
    {q \in InFlight : mpc[q] \in {"next", "wrote", "record", "leave",
                                  "unwind"}}

\* C30: the requests_in_flight gauge equals the number of requests inside
\* the metrics middleware, those whose handler panicked and whose deferred
\* Dec has not yet run included, and is 0 when no request is inside.
C30_InFlightGauge ==
    /\ requestsInFlight = Cardinality(InsideMetrics)
    /\ InsideMetrics = {} => requestsInFlight = 0

C30_Witness ==
    /\ \E q \in InFlight : mpc[q] = "recoverer"
    /\ \E q \in InFlight : mpc[q] = "wrote"
    /\ requestsInFlight = 1

\* C22: when the N requests issued have all completed and were all
\* answered with the same status, the requests_total counter of that
\* status equals N.
C22_RequestsTotalExact ==
    (\A q \in InFlight : mpc[q] = "idle")
        => \A s \in MetricStatuses :
              answered[s] = issued => requestsTotal[s] = issued

\* the MakeHandler calls whose routes a list holds
CallsIn(list) == {list[i].call : i \in DOMAIN list}

\* C2: after all the concurrent MakeHandler calls have returned, every
\* registry holds one entry for each call made on it: none is lost, none
\* appears twice, entries with the same method and path included.
C2_NoLostRegistration ==
    (\A p \in Registrars : rpc[p] = "done")
        => \A reg \in Registries :
              LET callers == {p \in Registrars : rlocal[p].reg = reg}
              IN  /\ Len(routes[reg]) = Cardinality(callers)
                  /\ \A p \in callers :
                        Cardinality({i \in DOMAIN routes[reg] :
                                       routes[reg][i].call = p}) = 1

C2_Witness ==
    /\ \A p \in Registrars : rpc[p] = "done"
    /\ Len(routes["X"]) = NumRegistrars
    /\ \A i \in DOMAIN routes["X"] : routes["X"][i].Path = "/test"

C9_DefensiveCopy ==
    \A reg \in Registries : RoutesValue(arrays, routes[reg]) = registered[reg]

====
